---- MODULE Spec2Model ----
(***************************************************************************)
(* Starborn Academy QR generator: the batched PDF export orchestrator      *)
(* (scripts/pdf.js), the page script that drives it (main.js: export job   *)
(* flags, click handlers, CSV generation), the master-matrix extractor,    *)
(* the header detector and the row normalizer (scripts/csv.js), and the    *)
(* identity functions (scripts/login.js, format.js, payload.js).           *)
(*                                                                         *)
(* JavaScript is single threaded: a handler runs until it returns or       *)
(* reaches an await that needs the event loop (setTimeout, QR rendering,   *)
(* file parsing).  Every action below is one such run-to-completion        *)
(* stretch.  A continuation that follows a settled promise (the handler's  *)
(* catch/finally after the orchestrator returns) is a microtask and is     *)
(* part of the same action.                                                *)
(***************************************************************************)
EXTENDS Integers, Sequences, FiniteSets, TLC

\* ------------------------------------------------------------------ bounds
MaxItems == 5          \* longest list handed to a direct orchestrator call
MaxPerPage == 2        \* largest perPage of a direct orchestrator call
MaxPagesOpt == 2       \* largest maxPagesPerPdf of a direct orchestrator call
MaxGridRows == 4       \* rows of the largest grid handed to extractMasterUsernames
MaxRows == 203         \* rows of the largest CSV file of the page model
MaxHeaderCells == 2    \* cells of the longest row handed to isProbablyHeaderRow
MaxRowCells == 5       \* cells of the longest roster row
MaxHeadset == 1000     \* largest headset number of the range handed to buildUsername
MaxPad == 4            \* largest headsetPad handed to buildUsername

\* ------------------------------------------------------- program constants
PerPageUi == 12        \* perPage passed by both click handlers
MaxPagesPerPdfUi == 10 \* maxPagesPerPdf passed by both click handlers
PREVIEW_LIMIT == 80    \* rows whose preview canvas is rendered (awaited)
YieldEvery == 200      \* generateFromCsv yields when i > 0 and i % 200 = 0
Null == 0 - 1          \* lastManualPrintItem = null
ManualItem == 0        \* the item built by generateManual

Min(a, b) == IF a < b THEN a ELSE b

\* Math.floor in place of Math.ceil
CeilDiv_Floor(n, d) == n \div d

\* Math.ceil(n / d) for n >= 0, d >= 1
CeilDiv(n, d) == (n + d - 1) \div d

\* the list <<1, ..., n>>: items are identified by their row number
Iota(n) == [k \in 1..n |-> k]

VARIABLES
    exportJob,            \* { running, cancelRequested }
    lastManualPrintItem,  \* Null or the manual item
    manualGen,            \* generateManual: "idle" or "rendering" (awaiting the canvas)
    csvPrintItems,        \* the array the module variable csvPrintItems refers to
    gen,                  \* the generateFromCsv invocation in flight
    items,                \* the array the running orchestrator call holds
    aliased,              \* items and csvPrintItems are the same array object
    orch,                 \* the orchestrator call: locals, position, and what it has emitted
    lastStep,             \* what the most recent handler or resumption did
    rawRows,              \* the grid handed to extractMasterUsernames
    masterItems,          \* what extractMasterUsernames returned
    masterDone,           \* extractMasterUsernames has returned
    headerCall,           \* a call of isProbablyHeaderRow: its argument and what it computed
    rowCall,              \* a roster row taken through normalizeCsvRow and readRowAsInput
    nameCall              \* a call of buildUsername: its argument and its result

vars == <<exportJob, lastManualPrintItem, manualGen, csvPrintItems, gen, items, aliased, orch, lastStep,
          rawRows, masterItems, masterDone, headerCall, rowCall, nameCall>>

\* the variables of the extractor and of the calls of the CSV and identity
\* functions, which the page and the orchestrator leave alone
mvars == <<rawRows, masterItems, masterDone, headerCall, rowCall, nameCall>>

\* no call of the function has been made
NoCall == [done |-> FALSE]

\* ------------------------------------------------------------ orchestrator

\* one progress record handed to onProgress (the message text is derived
\* from the other fields and is left out)
Event(phase, part, o, dn, total, remaining) ==
    [phase |-> phase, part |-> part, totalParts |-> o.totalParts,
     done |-> dn, total |-> total, remaining |-> remaining]

Emit(o, e) == [o EXCEPT !.events = Append(@, e)]

\* the call settles: res is "ok", "cancelled", or the error thrown
Settle(o, res) == [o EXCEPT !.pc = "returned", !.result = res]

\* isCancelled() as both handlers pass it: () => exportJob.cancelRequested
isCancelled(job) == job.cancelRequested

OrchIdle ==
    [caller |-> "none", pc |-> "idle", perPage |-> 0, maxPagesPerPdf |-> 0,
     itemsPerPdf |-> 0, totalParts |-> 0, part |-> 0, done |-> 0,
     slice |-> <<>>, events |-> <<>>, built |-> <<>>, presented |-> <<>>,
     result |-> "none", isArray |-> TRUE, startLen |-> 0]

\* LoopTop without the cancellation poll that opens a part
LoopTop_NoPoll(o, its, job) ==
    IF o.part < o.totalParts
    THEN LET start == o.part * o.itemsPerPdf
             end == Min(Len(its), start + o.itemsPerPdf)
             slice == SubSeq(its, start + 1, end)
             o1 == [o EXCEPT !.slice = slice, !.pc = "buildYield"]
         IN Emit(o1, Event("building", o.part + 1, o, o.done, Len(its), Len(its) - o.done))
    ELSE Settle(Emit(o, Event("done", o.totalParts, o, o.done, Len(its), 0)), "ok")

\* top of the for loop with o.part already set: the cancellation poll, the
\* slice and the 'building' event, up to the yield; or, past the last part,
\* the 'done' event and the return
LoopTop(o, its, job) ==
    IF o.part < o.totalParts
    THEN IF isCancelled(job)
         THEN Settle(Emit(o, Event("cancelled", o.part + 1, o, o.done, Len(its), Len(its) - o.done)),
                     "cancelled")
         ELSE LET start == o.part * o.itemsPerPdf
                  end == Min(Len(its), start + o.itemsPerPdf)
                  slice == SubSeq(its, start + 1, end)
                  o1 == [o EXCEPT !.slice = slice, !.pc = "buildYield"]
              IN Emit(o1, Event("building", o.part + 1, o, o.done, Len(its), Len(its) - o.done))
    ELSE Settle(Emit(o, Event("done", o.totalParts, o, o.done, Len(its), 0)), "ok")

\* OrchStart with the 'batching' event emitted for every run (totalParts >= 1)
OrchStart_AlwaysBatching(caller, isArray, its, pp, mp, job) ==
    LET o0 == [OrchIdle EXCEPT !.caller = caller, !.perPage = pp, !.maxPagesPerPdf = mp,
                               !.itemsPerPdf = pp * mp, !.isArray = isArray,
                               !.startLen = Len(its)]
    IN IF ~isArray \/ Len(its) = 0
       THEN Settle(o0, "No items to export.")
       ELSE LET o1 == [o0 EXCEPT !.totalParts = CeilDiv(Len(its), pp * mp)]
            IN [Emit(o1, Event("batching", 0, o1, 0, Len(its), Len(its))) EXCEPT !.pc = "batchYield"]

\* OrchStart with the empty-input test missing
OrchStart_NoEmptyCheck(caller, isArray, its, pp, mp, job) ==
    LET o0 == [OrchIdle EXCEPT !.caller = caller, !.perPage = pp, !.maxPagesPerPdf = mp,
                               !.itemsPerPdf = pp * mp, !.isArray = isArray,
                               !.startLen = Len(its)]
        o1 == [o0 EXCEPT !.totalParts = CeilDiv(Len(its), pp * mp)]
    IN IF o1.totalParts > 1
       THEN [Emit(o1, Event("batching", 0, o1, 0, Len(its), Len(its))) EXCEPT !.pc = "batchYield"]
       ELSE LoopTop(o1, its, job)

\* the call up to its first yield
OrchStart(caller, isArray, its, pp, mp, job) ==
    LET o0 == [OrchIdle EXCEPT !.caller = caller, !.perPage = pp, !.maxPagesPerPdf = mp,
                               !.itemsPerPdf = pp * mp, !.isArray = isArray,
                               !.startLen = Len(its)]
    IN IF ~isArray \/ Len(its) = 0
       THEN Settle(o0, "No items to export.")
       ELSE LET o1 == [o0 EXCEPT !.totalParts = CeilDiv(Len(its), pp * mp)]
            IN IF o1.totalParts > 1
               THEN [Emit(o1, Event("batching", 0, o1, 0, Len(its), Len(its))) EXCEPT !.pc = "batchYield"]
               ELSE LoopTop(o1, its, job)

\* after the yield that follows 'building': buildQrPdf is called on the slice
OrchCallBuilder(o) ==
    LET o1 == [o EXCEPT !.built = Append(@, o.slice)]
    IN IF Len(o.slice) = 0
       THEN Settle(o1, "No items to export.")
       ELSE [o1 EXCEPT !.pc = "building"]

\* OrchAfterBuild that catches the builder's error and reports the run cancelled
OrchAfterBuild_Catches(o, its, job, builderThrows) ==
    IF builderThrows \/ isCancelled(job)
    THEN Settle(Emit(o, Event("cancelled", o.part + 1, o, o.done, Len(its), Len(its) - o.done)),
                "cancelled")
    ELSE LET dn == o.done + Len(o.slice)
             o1 == [o EXCEPT !.presented = Append(@, o.slice), !.done = dn, !.pc = "openedYield"]
         IN Emit(o1, Event("opened", o.part + 1, o, dn, Len(its), Len(its) - dn))

\* OrchAfterBuild without the cancellation poll that follows the build
OrchAfterBuild_NoPoll(o, its, job, builderThrows) ==
    IF builderThrows
    THEN Settle(o, "PDF build failed")
    ELSE LET dn == o.done + Len(o.slice)
             o1 == [o EXCEPT !.presented = Append(@, o.slice), !.done = dn, !.pc = "openedYield"]
         IN Emit(o1, Event("opened", o.part + 1, o, dn, Len(its), Len(its) - dn))

\* buildQrPdf settles: it threw, or it returned the document
OrchAfterBuild(o, its, job, builderThrows) ==
    IF builderThrows
    THEN Settle(o, "PDF build failed")
    ELSE IF isCancelled(job)
         THEN Settle(Emit(o, Event("cancelled", o.part + 1, o, o.done, Len(its), Len(its) - o.done)),
                     "cancelled")
         ELSE LET dn == o.done + Len(o.slice)
                  o1 == [o EXCEPT !.presented = Append(@, o.slice), !.done = dn, !.pc = "openedYield"]
              IN Emit(o1, Event("opened", o.part + 1, o, dn, Len(its), Len(its) - dn))

\* after the yield that follows 'opened': part++ and the loop test
OrchNextPart(o, its, job) == LoopTop([o EXCEPT !.part = @ + 1], its, job)

\* ------------------------------------------------------- export handlers

\* setExportUi(isRunning): the job flag (the DOM attributes it also sets
\* mirror the flag and are not modelled)
setExportUi(job, isRunning) == [job EXCEPT !.running = isRunning]

\* HandlerEpilogue with the reset after the try block instead of in a
\* finally: a call that threw leaves the job flags as they were
HandlerEpilogue_NoFinally(o) ==
    /\ exportJob' = IF o.result \in {"ok", "cancelled"}
                    THEN [setExportUi(exportJob, FALSE) EXCEPT !.cancelRequested = FALSE]
                    ELSE exportJob
    /\ orch' = [o EXCEPT !.caller = "none", !.pc = "idle"]
    /\ lastStep' = IF o.result \in {"ok", "cancelled"} THEN "export:" \o o.result ELSE "export:alert"

\* the rest of a click handler once the orchestrator call has settled:
\* catch (alert) and finally (setExportUi(false); cancelRequested = false)
HandlerEpilogue(o) ==
    /\ exportJob' = [setExportUi(exportJob, FALSE) EXCEPT !.cancelRequested = FALSE]
    /\ orch' = [o EXCEPT !.caller = "none", !.pc = "idle"]
    /\ lastStep' = IF o.result \in {"ok", "cancelled"} THEN "export:" \o o.result ELSE "export:alert"

\* an orchestrator stretch ended in state o while the job flags were job: a
\* call made by a handler that has settled runs the handler's epilogue, any
\* other call keeps running (or, made directly, keeps its result)
Continue(o, job, step) ==
    IF o.pc = "returned" /\ o.caller # "direct"
    THEN HandlerEpilogue(o)
    ELSE /\ orch' = o
         /\ exportJob' = job
         /\ lastStep' = step

\* ------------------------------------------------------------- generation

\* a CSV file as generateFromCsv sees it: raw rows (the master items, or
\* the rows of a roster), of which blankRows have neither group nor period
\* nor headset and are dropped by the filter, and of which badRows fail
\* validation in readRowAsInput; NoFile is an empty file input.  The large
\* file has one valid row among its first PREVIEW_LIMIT rows, so that it
\* awaits one preview canvas, and is long enough to reach the yield at row
\* 200 and to fill more than one PDF.
NoFile == [raw |-> 0 - 1, blankRows |-> {}, badRows |-> {}]
Files ==
    {NoFile,
     [raw |-> 0, blankRows |-> {}, badRows |-> {}],
     [raw |-> 4, blankRows |-> {3}, badRows |-> {2}],
     [raw |-> MaxRows, blankRows |-> {}, badRows |-> 2..PREVIEW_LIMIT]}

\* normalized.filter(...): the usable rows of the file, by raw row number
UsableRows(file) == SelectSeq(Iota(file.raw), LAMBDA r : r \notin file.blankRows)

GenIdle == [pc |-> "idle", n |-> 0, badRows |-> {}, i |-> 0, ok |-> 0, bad |-> 0,
            file |-> [raw |-> 0, blankRows |-> {}, badRows |-> {}]]

\* Row r (1-based; loop index i = r - 1) of the usable rows of a generation g:
\* it awaits its preview canvas before it is pushed
RowAwaitsCanvas(g, r) == r \notin g.badRows /\ r - 1 < PREVIEW_LIMIT
\* the loop yields to the event loop after it (i > 0 && i % 200 === 0)
RowYieldsAfter(r) == r - 1 > 0 /\ (r - 1) % YieldEvery = 0

\* the rows lo..hi that pass validation, in order
GoodRows(g, lo, hi) == SelectSeq([k \in 1..(hi - lo + 1) |-> lo + k - 1], LAMBDA r : r \notin g.badRows)

\* the rows lo..hi run without an await: the bad ones are counted, the
\* others are pushed and counted
RunRows(g, list, lo, hi) ==
    LET good == GoodRows(g, lo, hi)
    IN [g |-> [g EXCEPT !.ok = @ + Len(good), !.bad = @ + ((hi - lo + 1) - Len(good))],
        list |-> list \o good]

\* the row loop of generateFromCsv from the loop test at index g.i (0-based)
\* up to its next await or its end; list is the csvPrintItems array.  The
\* loop stops at the first row that awaits its canvas (before the row is
\* pushed), or after the first row that is followed by a yield, or at the end.
GenLoop(g, list) ==
    LET first == g.i + 1
        stops == {r \in first..g.n : RowAwaitsCanvas(g, r) \/ RowYieldsAfter(r)}
    IN IF stops = {}
       THEN LET res == RunRows(g, list, first, g.n)
            IN [g |-> [res.g EXCEPT !.pc = "idle", !.i = g.n], list |-> res.list]
       ELSE LET r == CHOOSE x \in stops : \A y \in stops : x <= y
            IN IF RowAwaitsCanvas(g, r)
               THEN LET res == RunRows(g, list, first, r - 1)
                    IN [g |-> [res.g EXCEPT !.pc = "render", !.i = r - 1], list |-> res.list]
               ELSE LET res == RunRows(g, list, first, r)
                    IN [g |-> [res.g EXCEPT !.pc = "yield", !.i = r - 1], list |-> res.list]

\* the end of the loop body of row g.i: the yield every 200 rows, then i++
GenAfterRow(g, list) ==
    IF RowYieldsAfter(g.i + 1)
    THEN [g |-> [g EXCEPT !.pc = "yield"], list |-> list]
    ELSE GenLoop([g EXCEPT !.i = @ + 1], list)

\* csvPrintItems now holds list: an orchestrator call that was handed the
\* same array object sees the change
StoreCsvItems(list) ==
    /\ csvPrintItems' = list
    /\ items' = IF aliased THEN list ELSE items
    /\ UNCHANGED aliased

Init ==
    /\ exportJob = [running |-> FALSE, cancelRequested |-> FALSE]
    /\ lastManualPrintItem = Null
    /\ manualGen = "rendering"
    /\ csvPrintItems = <<>>
    /\ gen = GenIdle
    /\ items = <<>>
    /\ aliased = FALSE
    /\ orch = OrchIdle
    /\ lastStep = "load"
    /\ rawRows = <<>>
    /\ masterItems = <<>>
    /\ masterDone = FALSE
    /\ headerCall = NoCall
    /\ rowCall = NoCall
    /\ nameCall = NoCall

\* els.printManual click listener
PrintManualClick ==
    /\ IF exportJob.running
       THEN /\ lastStep' = "printManual:rejected"
            /\ UNCHANGED <<exportJob, lastManualPrintItem, manualGen, csvPrintItems, gen, items, aliased, orch>>
       ELSE IF lastManualPrintItem = Null
       THEN /\ lastStep' = "printManual:alert"
            /\ UNCHANGED <<exportJob, lastManualPrintItem, manualGen, csvPrintItems, gen, items, aliased, orch>>
       ELSE LET job == setExportUi([exportJob EXCEPT !.cancelRequested = FALSE], TRUE)
                its == <<lastManualPrintItem>>
            IN /\ items' = its
               /\ aliased' = FALSE
               /\ Continue(OrchStart("manual", TRUE, its, PerPageUi, MaxPagesPerPdfUi, job), job,
                           "printManual:started")
               /\ UNCHANGED <<lastManualPrintItem, manualGen, csvPrintItems, gen>>
    /\ UNCHANGED mvars

\* CsvPrintClick without the exportJob.running guard
CsvPrintClick_NoGuard ==
    /\ IF Len(csvPrintItems) = 0
       THEN /\ lastStep' = "csvPrint:alert"
            /\ UNCHANGED <<exportJob, lastManualPrintItem, manualGen, csvPrintItems, gen, items, aliased, orch>>
       ELSE LET job == setExportUi([exportJob EXCEPT !.cancelRequested = FALSE], TRUE)
            IN /\ items' = csvPrintItems
               /\ aliased' = TRUE
               /\ Continue(OrchStart("csv", TRUE, csvPrintItems, PerPageUi, MaxPagesPerPdfUi, job), job,
                           "csvPrint:started")
               /\ UNCHANGED <<lastManualPrintItem, manualGen, csvPrintItems, gen>>
    /\ UNCHANGED mvars

\* els.csvPrint click listener: the orchestrator gets the csvPrintItems array itself
CsvPrintClick ==
    /\ IF exportJob.running
       THEN /\ lastStep' = "csvPrint:rejected"
            /\ UNCHANGED <<exportJob, lastManualPrintItem, manualGen, csvPrintItems, gen, items, aliased, orch>>
       ELSE IF Len(csvPrintItems) = 0
       THEN /\ lastStep' = "csvPrint:alert"
            /\ UNCHANGED <<exportJob, lastManualPrintItem, manualGen, csvPrintItems, gen, items, aliased, orch>>
       ELSE LET job == setExportUi([exportJob EXCEPT !.cancelRequested = FALSE], TRUE)
            IN /\ items' = csvPrintItems
               /\ aliased' = TRUE
               /\ Continue(OrchStart("csv", TRUE, csvPrintItems, PerPageUi, MaxPagesPerPdfUi, job), job,
                           "csvPrint:started")
               /\ UNCHANGED <<lastManualPrintItem, manualGen, csvPrintItems, gen>>
    /\ UNCHANGED mvars

\* CancelClick without the exportJob.running guard
CancelClick_NoGuard ==
    /\ exportJob' = [exportJob EXCEPT !.cancelRequested = TRUE]
    /\ lastStep' = "cancel:requested"
    /\ UNCHANGED <<lastManualPrintItem, manualGen, csvPrintItems, gen, items, aliased, orch>>
    /\ UNCHANGED mvars

\* els.cancelExport click listener
CancelClick ==
    /\ IF ~exportJob.running
       THEN /\ lastStep' = "cancel:ignored"
            /\ UNCHANGED exportJob
       ELSE /\ exportJob' = [exportJob EXCEPT !.cancelRequested = TRUE]
            /\ lastStep' = "cancel:requested"
    /\ UNCHANGED <<lastManualPrintItem, manualGen, csvPrintItems, gen, items, aliased, orch>>
    /\ UNCHANGED mvars

\* the orchestrator resumes after the yield that follows 'batching'
ResumeAfterBatching ==
    /\ orch.pc = "batchYield"
    /\ Continue(LoopTop(orch, items, exportJob), exportJob, "orch:loop")
    /\ UNCHANGED <<lastManualPrintItem, manualGen, csvPrintItems, gen, items, aliased>>
    /\ UNCHANGED mvars

\* the orchestrator resumes after the yield that follows 'building' and calls buildQrPdf
ResumeToBuild ==
    /\ orch.pc = "buildYield"
    /\ Continue(OrchCallBuilder(orch), exportJob, "orch:build")
    /\ UNCHANGED <<lastManualPrintItem, manualGen, csvPrintItems, gen, items, aliased>>
    /\ UNCHANGED mvars

\* buildQrPdf settles (jsPDF or the QR encoder may throw)
BuilderSettles ==
    /\ orch.pc = "building"
    /\ \E builderThrows \in BOOLEAN :
          Continue(OrchAfterBuild(orch, items, exportJob, builderThrows), exportJob,
                   IF builderThrows THEN "orch:builderThrew" ELSE "orch:built")
    /\ UNCHANGED <<lastManualPrintItem, manualGen, csvPrintItems, gen, items, aliased>>
    /\ UNCHANGED mvars

\* the orchestrator resumes after the yield that follows 'opened'
ResumeAfterOpened ==
    /\ orch.pc = "openedYield"
    /\ Continue(OrchNextPart(orch, items, exportJob), exportJob, "orch:loop")
    /\ UNCHANGED <<lastManualPrintItem, manualGen, csvPrintItems, gen, items, aliased>>
    /\ UNCHANGED mvars

\* clearCsvResults(): csvPrintItems is bound to a new empty array
clearCsvResults ==
    /\ csvPrintItems' = <<>>
    /\ aliased' = FALSE
    /\ UNCHANGED items

\* els.csvClear click listener
CsvClearClick ==
    /\ clearCsvResults
    /\ lastStep' = "csvClear"
    /\ UNCHANGED <<exportJob, lastManualPrintItem, manualGen, gen, orch>>
    /\ UNCHANGED mvars

\* els.csvGenerate click listener: generateFromCsv up to the await on the
\* parser (one generation is followed at a time)
CsvGenerateClick ==
    /\ gen.pc = "idle"
    /\ \E file \in Files :
          IF file = NoFile
          THEN /\ lastStep' = "csvGenerate:alert"
               /\ UNCHANGED <<gen, csvPrintItems, aliased, items>>
          ELSE /\ clearCsvResults
               /\ gen' = [GenIdle EXCEPT !.pc = "parsing", !.file = file]
               /\ lastStep' = "csvGenerate:parsing"
    /\ UNCHANGED <<exportJob, lastManualPrintItem, manualGen, orch>>
    /\ UNCHANGED mvars

\* parseCsvFile settles: a parse error is alerted; otherwise the rows are
\* filtered and the usable ones processed up to the first await
CsvParsed ==
    /\ gen.pc = "parsing"
    /\ \E parseError \in BOOLEAN :
          IF parseError
          THEN /\ gen' = [gen EXCEPT !.pc = "idle"]
               /\ lastStep' = "csvGenerate:parseError"
               /\ UNCHANGED <<csvPrintItems, items, aliased>>
          ELSE LET rows == UsableRows(gen.file)
                   g == [gen EXCEPT !.n = Len(rows),
                                    !.badRows = {k \in 1..Len(rows) : rows[k] \in gen.file.badRows}]
                   r == GenLoop(g, csvPrintItems)
               IN /\ gen' = r.g
                  /\ StoreCsvItems(r.list)
                  /\ lastStep' = "csvGenerate:rows"
    /\ UNCHANGED <<exportJob, lastManualPrintItem, manualGen, orch>>
    /\ UNCHANGED mvars

\* the preview canvas of row i is rendered: the row is pushed and counted
CsvRowRendered ==
    /\ gen.pc = "render"
    /\ LET r == GenAfterRow([gen EXCEPT !.ok = @ + 1], Append(csvPrintItems, gen.i + 1))
       IN /\ gen' = r.g
          /\ StoreCsvItems(r.list)
    /\ lastStep' = "csvGenerate:rows"
    /\ UNCHANGED <<exportJob, lastManualPrintItem, manualGen, orch>>
    /\ UNCHANGED mvars

\* generateFromCsv resumes after its setTimeout yield
CsvYieldResumed ==
    /\ gen.pc = "yield"
    /\ LET r == GenLoop([gen EXCEPT !.i = @ + 1], csvPrintItems)
       IN /\ gen' = r.g
          /\ StoreCsvItems(r.list)
    /\ lastStep' = "csvGenerate:rows"
    /\ UNCHANGED <<exportJob, lastManualPrintItem, manualGen, orch>>
    /\ UNCHANGED mvars

\* els.btn click listener: generateManual up to the await on the canvas
\* (readManualForm throws on an invalid form and the error is alerted)
ManualGenerateClick ==
    /\ \E formValid \in BOOLEAN :
          IF formValid
          THEN manualGen' = "rendering" /\ lastStep' = "generateManual:rendering"
          ELSE manualGen' = manualGen /\ lastStep' = "generateManual:alert"
    /\ UNCHANGED <<exportJob, lastManualPrintItem, csvPrintItems, gen, items, aliased, orch>>
    /\ UNCHANGED mvars

\* the manual canvas is rendered: lastManualPrintItem is set
ManualRendered ==
    /\ manualGen = "rendering"
    /\ manualGen' = "idle"
    /\ lastManualPrintItem' = ManualItem
    /\ lastStep' = "generateManual:done"
    /\ UNCHANGED <<exportJob, csvPrintItems, gen, items, aliased, orch>>
    /\ UNCHANGED mvars

Next ==
    \/ PrintManualClick \/ CsvPrintClick \/ CancelClick
    \/ ResumeAfterBatching \/ ResumeToBuild \/ BuilderSettles \/ ResumeAfterOpened
    \/ CsvClearClick \/ CsvGenerateClick \/ CsvParsed \/ CsvRowRendered \/ CsvYieldResumed
    \/ ManualGenerateClick \/ ManualRendered

Spec == Init /\ [][Next]_vars

\* ------------------------------------------------- direct orchestrator call

\* buildQrPdfBatchedAndOpenWithProgress called once on a list of n items (or
\* on something that is not an array), isCancelled reading the job flag
DirectCall ==
    /\ orch.caller = "none" /\ orch.result = "none"
    /\ \E isArray \in BOOLEAN, n \in 0..MaxItems, pp \in 1..MaxPerPage, mp \in 1..MaxPagesOpt :
          /\ items' = Iota(n)
          /\ Continue(OrchStart("direct", isArray, Iota(n), pp, mp, exportJob), exportJob, "direct:called")
    /\ aliased' = FALSE
    /\ UNCHANGED <<lastManualPrintItem, manualGen, csvPrintItems, gen>>
    /\ UNCHANGED mvars

\* the flag isCancelled reads becomes true (at any point where the event loop has control)
EnvCancel ==
    /\ ~exportJob.cancelRequested
    /\ orch.pc # "returned"
    /\ exportJob' = [exportJob EXCEPT !.cancelRequested = TRUE]
    /\ lastStep' = "env:cancel"
    /\ UNCHANGED <<lastManualPrintItem, manualGen, csvPrintItems, gen, items, aliased, orch>>
    /\ UNCHANGED mvars

NextOrch == DirectCall \/ EnvCancel \/ ResumeAfterBatching \/ ResumeToBuild \/ BuilderSettles \/ ResumeAfterOpened

SpecOrch == Init /\ [][NextOrch]_vars

\* the timers of yieldToUI fire and buildQrPdf settles
SpecLive ==
    /\ Spec
    /\ WF_vars(ResumeAfterBatching) /\ WF_vars(ResumeToBuild)
    /\ WF_vars(BuilderSettles) /\ WF_vars(ResumeAfterOpened)

\* ---------------------------------------------------- master-matrix extractor

\* A string is the sequence of its characters.
EmptyStr == <<>>
IsSpace(c) == c = " "
UpperCase == <<"A", "B", "C", "D", "E", "F", "G", "H", "I", "J", "K", "L", "M", "N", "O", "P", "Q", "R", "S", "T", "U", "V", "W", "X", "Y", "Z">>
LowerCase == <<"a", "b", "c", "d", "e", "f", "g", "h", "i", "j", "k", "l", "m", "n", "o", "p", "q", "r", "s", "t", "u", "v", "w", "x", "y", "z">>
UpperToLower == [c \in {UpperCase[j] : j \in 1..Len(UpperCase)} |->
                   LowerCase[CHOOSE j \in 1..Len(UpperCase) : UpperCase[j] = c]]

\* String.prototype.trim
RECURSIVE TrimLeft(_)
TrimLeft(str) == IF str # <<>> /\ IsSpace(Head(str)) THEN TrimLeft(Tail(str)) ELSE str
RECURSIVE TrimRight(_)
TrimRight(str) == IF str # <<>> /\ IsSpace(str[Len(str)]) THEN TrimRight(SubSeq(str, 1, Len(str) - 1)) ELSE str
Trim(str) == TrimRight(TrimLeft(str))

\* String.prototype.toLowerCase
ToLowerCase(str) == [j \in 1..Len(str) |-> IF str[j] \in DOMAIN UpperToLower THEN UpperToLower[str[j]] ELSE str[j]]

\* str.replace(/X+/g, "_"): every maximal run of characters of the set
\* class becomes one underscore
RECURSIVE ReplaceRuns(_, _)
ReplaceRuns(str, class) ==
    IF str = <<>> THEN <<>>
    ELSE IF Head(str) \in class
    THEN IF Len(str) >= 2 /\ str[2] \in class
         THEN ReplaceRuns(Tail(str), class)
         ELSE <<"_">> \o ReplaceRuns(Tail(str), class)
    ELSE <<Head(str)>> \o ReplaceRuns(Tail(str), class)

\* normalizeKey(k): trim, lower case, /\s+/g -> "_", then /-+/g -> "_"
normalizeKey(k) == ReplaceRuns(ReplaceRuns(ToLowerCase(Trim(k)), {" "}), {"-"})

\* cellStr(v): (v ?? "").toString().trim()
cellStr(v) == Trim(v)

\* row[j] for a 0-based index j, with (undefined ?? "") for a missing cell
Cell(row, j) == IF j + 1 <= Len(row) THEN row[j + 1] ELSE EmptyStr

\* row.slice(1).map(cellStr)
SliceFrom1(row) == [j \in 1..(Len(row) - 1) |-> cellStr(row[j + 1])]

\* carryForward that restarts from "" at every cell (no inheritance)
RECURSIVE carryForwardFrom_NoCarry(_, _)
carryForwardFrom_NoCarry(values, last) ==
    IF values = <<>> THEN <<>>
    ELSE <<IF cellStr(Head(values)) # EmptyStr THEN Head(values) ELSE EmptyStr>>
            \o carryForwardFrom_NoCarry(Tail(values), last)

\* the loop of carryForward with `last` as it stands before the first of values
RECURSIVE carryForwardFrom(_, _)
carryForwardFrom(values, last) ==
    IF values = <<>> THEN <<>>
    ELSE LET v == cellStr(Head(values))
         IN IF v # EmptyStr
            THEN <<Head(values)>> \o carryForwardFrom(Tail(values), v)
            ELSE <<last>> \o carryForwardFrom(Tail(values), last)

\* carryForward(values)
carryForward(values) == carryForwardFrom(values, EmptyStr)

S_teacher == <<"t", "e", "a", "c", "h", "e", "r">>
S_group_code == <<"g", "r", "o", "u", "p", "_", "c", "o", "d", "e">>
S_class_periods == <<"c", "l", "a", "s", "s", "_", "p", "e", "r", "i", "o", "d", "s">>
S_usernames == <<"u", "s", "e", "r", "n", "a", "m", "e", "s">>

NoLabelRows == [teacher |-> 0 - 1, group |-> 0 - 1, periods |-> 0 - 1, usernames |-> 0 - 1]

\* the label scan of extractMasterUsernames from row i (0-based) on, idx
\* being the four row indexes found so far
RECURSIVE ScanLabels(_, _, _)
ScanLabels(rows, i, idx) ==
    IF i >= Len(rows) THEN idx
    ELSE LET r == rows[i + 1]
         IN IF Len(r) = 0 THEN ScanLabels(rows, i + 1, idx)
            ELSE LET label == normalizeKey(cellStr(Cell(r, 0)))
                     idx1 == IF label = S_teacher THEN [idx EXCEPT !.teacher = i]
                             ELSE IF label = S_group_code THEN [idx EXCEPT !.group = i]
                             ELSE IF label = S_class_periods THEN [idx EXCEPT !.periods = i]
                             ELSE IF label = S_usernames THEN [idx EXCEPT !.usernames = i]
                             ELSE idx
                 IN IF idx1.teacher >= 0 /\ idx1.group >= 0 /\ idx1.periods >= 0 /\ idx1.usernames >= 0
                    THEN idx1
                    ELSE ScanLabels(rows, i + 1, idx1)

\* the inner loop of extractMasterUsernames over the columns c..cols of one row
RECURSIVE ExtractCols(_, _, _, _, _, _)
ExtractCols(row, c, cols, teachers, groupCodes, periods) ==
    IF c > cols THEN <<>>
    ELSE LET username == cellStr(Cell(row, c))
             groupCode == cellStr(Cell(groupCodes, c - 1))
             teacher == IF Len(teachers) # 0 THEN cellStr(Cell(teachers, c - 1)) ELSE EmptyStr
             period == IF Len(periods) # 0 THEN cellStr(Cell(periods, c - 1)) ELSE EmptyStr
             rest == ExtractCols(row, c + 1, cols, teachers, groupCodes, periods)
         IN IF username = EmptyStr THEN rest
            ELSE IF groupCode = EmptyStr THEN rest
            ELSE <<[groupCode |-> groupCode, username |-> username, teacher |-> teacher, period |-> period]>>
                    \o rest

\* the outer loop of extractMasterUsernames over the rows r.. (0-based)
RECURSIVE ExtractRows(_, _, _, _, _)
ExtractRows(rows, r, teachers, groupCodes, periods) ==
    IF r >= Len(rows) THEN <<>>
    ELSE LET row == rows[r + 1]
             rest == ExtractRows(rows, r + 1, teachers, groupCodes, periods)
         IN IF Len(row) < 2 THEN rest
            ELSE ExtractCols(row, 1, Min(Len(groupCodes), Len(row) - 1), teachers, groupCodes, periods)
                    \o rest

\* extractMasterUsernames that also requires the teacher row
extractMasterUsernames_NeedsTeacher(rows) ==
    IF Len(rows) = 0 THEN <<>>
    ELSE LET idx == ScanLabels(rows, 0, NoLabelRows)
         IN IF idx.group < 0 \/ idx.usernames < 0 \/ idx.teacher < 0 THEN <<>>
            ELSE LET teachers == carryForward(SliceFrom1(rows[idx.teacher + 1]))
                     groupCodes == carryForward(SliceFrom1(rows[idx.group + 1]))
                     periods == IF idx.periods >= 0 THEN carryForward(SliceFrom1(rows[idx.periods + 1])) ELSE <<>>
                 IN ExtractRows(rows, idx.usernames + 1, teachers, groupCodes, periods)

\* extractMasterUsernames(rawRows); every row of the grid is an array, so
\* the entry test fails only on an empty grid (rawRows[0] undefined)
extractMasterUsernames(rows) ==
    IF Len(rows) = 0 THEN <<>>
    ELSE LET idx == ScanLabels(rows, 0, NoLabelRows)
         IN IF idx.group < 0 \/ idx.usernames < 0 THEN <<>>
            ELSE LET teachers == IF idx.teacher >= 0 THEN carryForward(SliceFrom1(rows[idx.teacher + 1])) ELSE <<>>
                     groupCodes == carryForward(SliceFrom1(rows[idx.group + 1]))
                     periods == IF idx.periods >= 0 THEN carryForward(SliceFrom1(rows[idx.periods + 1])) ELSE <<>>
                 IN ExtractRows(rows, idx.usernames + 1, teachers, groupCodes, periods)

\* the grids of the extractor check: up to MaxGridRows rows out of GridRows,
\* in any order and with repetitions.  A row is a first cell (a label in
\* some spelling, or another word) followed by a list of cells.
L_group == <<" ", "G", "r", "o", "u", "p", " ", "C", "o", "d", "e">>
L_usernames == <<"u", "s", "e", "r", "n", "a", "m", "e", "s", " ">>
L_teacher == <<"T", "e", "a", "c", "h", "e", "r">>
L_periods == <<"C", "l", "a", "s", "s", "-", "P", "e", "r", "i", "o", "d", "s">>
L_other == <<"x">>
BodyA == <<<<>>, <<"a", "l">>, <<" ">>, <<"b", "o">>>>
BodyB == <<<<"c", "y">>, <<"a", "l">>, <<" ", "b", "o", " ">>>>
GridRows ==
    {<<L_group>>, <<L_group>> \o BodyA, <<L_group>> \o BodyB,
     <<L_usernames>>, <<L_usernames>> \o BodyB,
     <<L_teacher>> \o BodyB,
     <<L_periods>> \o BodyA,
     <<L_other>>, <<L_other>> \o BodyA, <<L_other>> \o BodyB}

InitMaster ==
    /\ exportJob = [running |-> FALSE, cancelRequested |-> FALSE]
    /\ lastManualPrintItem = Null
    /\ manualGen = "rendering"
    /\ csvPrintItems = <<>>
    /\ gen = GenIdle
    /\ items = <<>>
    /\ aliased = FALSE
    /\ orch = OrchIdle
    /\ lastStep = "load"
    /\ \E n \in 0..MaxGridRows : rawRows \in [1..n -> GridRows]
    /\ masterItems = <<>>
    /\ masterDone = FALSE
    /\ headerCall = NoCall
    /\ rowCall = NoCall
    /\ nameCall = NoCall

\* extractMasterUsernames is applied to the grid
ExtractMaster ==
    /\ ~masterDone
    /\ masterItems' = extractMasterUsernames(rawRows)
    /\ masterDone' = TRUE
    /\ UNCHANGED <<exportJob, lastManualPrintItem, manualGen, csvPrintItems, gen, items, aliased, orch,
                   lastStep, rawRows, headerCall, rowCall, nameCall>>

NextMaster == ExtractMaster

SpecMaster == InitMaster /\ [][NextMaster]_vars

\* ------------------------------------------------------- header detection

\* the vocabulary of isProbablyHeaderRow
known ==
    {<<"g", "r", "o", "u", "p">>,
     <<"g", "r", "o", "u", "p", "_", "c", "o", "d", "e">>,
     <<"g", "r", "o", "u", "p", "c", "o", "d", "e">>,
     <<"p", "e", "r", "i", "o", "d">>,
     <<"p", "e", "r">>,
     <<"h", "e", "a", "d", "s", "e", "t">>,
     <<"h", "e", "a", "d", "s", "e", "t", "_", "n", "u", "m", "b", "e", "r">>,
     <<"h", "e", "a", "d", "s", "e", "t", "n", "u", "m", "b", "e", "r">>,
     <<"h", "e", "a", "d", "s", "e", "t", "_", "n", "o">>,
     <<"h", "e", "a", "d", "s", "e", "t", "_", "n", "u", "m">>,
     <<"p", "r", "e", "f", "i", "x">>,
     <<"p", "a", "d">>,
     <<"p", "a", "d", "d", "i", "n", "g">>,
     <<"h", "e", "a", "d", "s", "e", "t", "_", "d", "i", "g", "i", "t", "s">>,
     <<"h", "e", "a", "d", "s", "e", "t", "_", "p", "a", "d">>}

\* isProbablyHeaderRow(row); isArray is Array.isArray(row) (rawRows[0] is
\* undefined when the file has no rows)
isProbablyHeaderRow(isArray, row) ==
    IF ~isArray \/ Len(row) < 2 THEN FALSE
    ELSE LET keys == [j \in 1..Len(row) |-> normalizeKey(cellStr(row[j]))]
             hits == Cardinality({j \in 1..Len(row) : keys[j] \in known})
         IN hits >= 2

\* the cells of the first rows handed to isProbablyHeaderRow: text is what
\* the sheet holds, label the column name it spells (in some case, with
\* spaces or hyphens between its words, with spaces around it)
HeaderCells ==
    {[label |-> <<"g", "r", "o", "u", "p", "_", "c", "o", "d", "e">>,
      text |-> <<"G", "r", "o", "u", "p", " ", "C", "o", "d", "e">>],
     [label |-> <<"g", "r", "o", "u", "p", "_", "c", "o", "d", "e">>,
      text |-> <<"g", "r", "o", "u", "p", "-", "c", "o", "d", "e">>],
     [label |-> <<"g", "r", "o", "u", "p", "_", "c", "o", "d", "e">>,
      text |-> <<"G", "R", "O", "U", "P", " ", " ", "C", "O", "D", "E">>],
     [label |-> <<"g", "r", "o", "u", "p", "_", "c", "o", "d", "e">>,
      text |-> <<"g", "r", "o", "u", "p", " ", "-", " ", "c", "o", "d", "e">>],
     [label |-> <<"p", "e", "r", "i", "o", "d">>,
      text |-> <<" ", "P", "e", "r", "i", "o", "d", " ">>],
     [label |-> <<"h", "e", "a", "d", "s", "e", "t", "_", "n", "u", "m", "b", "e", "r">>,
      text |-> <<"H", "e", "a", "d", "s", "e", "t", "-", "-", "N", "u", "m", "b", "e", "r">>],
     [label |-> <<"p", "a", "d">>,
      text |-> <<"P", "A", "D">>],
     [label |-> <<"n", "a", "m", "e">>,
      text |-> <<"N", "a", "m", "e">>],
     [label |-> <<"c", "l", "a", "s", "s", "_", "p", "r", "e", "f", "i", "x">>,
      text |-> <<"c", "l", "a", "s", "s", " ", "p", "r", "e", "f", "i", "x">>],
     [label |-> <<"h", "e", "a", "d", "s", "e", "t", "_", "n", "o">>,
      text |-> <<"h", "e", "a", "d", "s", "e", "t", "_", "n", "o">>]}

\* the texts of a row of cells
Texts(row) == [j \in 1..Len(row) |-> row[j].text]

InitHeader ==
    /\ exportJob = [running |-> FALSE, cancelRequested |-> FALSE]
    /\ lastManualPrintItem = Null
    /\ manualGen = "rendering"
    /\ csvPrintItems = <<>>
    /\ gen = GenIdle
    /\ items = <<>>
    /\ aliased = FALSE
    /\ orch = OrchIdle
    /\ lastStep = "load"
    /\ rawRows = <<>>
    /\ masterItems = <<>>
    /\ masterDone = FALSE
    /\ \/ headerCall = [done |-> FALSE, isArray |-> FALSE, row |-> <<>>]
       \/ \E n \in 0..MaxHeaderCells :
             \E row \in [1..n -> HeaderCells] :
                headerCall = [done |-> FALSE, isArray |-> TRUE, row |-> row]
    /\ rowCall = NoCall
    /\ nameCall = NoCall

\* isProbablyHeaderRow is applied to the row; keys is the list it computes
\* with normalizeKey(cellStr(c)) from the cells
DetectHeader ==
    /\ ~headerCall.done
    /\ headerCall' =
          [done |-> TRUE, isArray |-> headerCall.isArray, row |-> headerCall.row,
           keys |-> [j \in 1..Len(headerCall.row) |-> normalizeKey(cellStr(headerCall.row[j].text))],
           result |-> isProbablyHeaderRow(headerCall.isArray, Texts(headerCall.row))]
    /\ UNCHANGED <<exportJob, lastManualPrintItem, manualGen, csvPrintItems, gen, items, aliased, orch,
                   lastStep, rawRows, masterItems, masterDone, rowCall, nameCall>>

NextHeader == DetectHeader

SpecHeader == InitHeader /\ [][NextHeader]_vars

\* ------------------------------------------------------- identity functions

\* the value undefined (what a missing cell or a missing field reads as);
\* it is no string, so it differs from every cell
Undefined == <<"undefined">>

\* a JavaScript number: an integer, or NaN
Num(n) == [nan |-> FALSE, v |-> n]
NaN == [nan |-> TRUE, v |-> 0]

DigitChars == <<"0", "1", "2", "3", "4", "5", "6", "7", "8", "9">>
IsDigit(c) == \E d \in 1..Len(DigitChars) : DigitChars[d] = c
DigitValue(c) == (CHOOSE d \in 1..Len(DigitChars) : DigitChars[d] = c) - 1

\* the value of a string of decimal digits
RECURSIVE DecValue(_)
DecValue(str) == IF str = <<>> THEN 0 ELSE 10 * DecValue(SubSeq(str, 1, Len(str) - 1)) + DigitValue(str[Len(str)])

\* Number(value) for undefined or a string of digits, spaces, letters and
\* '-': white space around the text is dropped, the empty text is 0, an
\* optionally signed decimal numeral is its value and anything else is NaN
Number(value) ==
    IF value = Undefined THEN NaN
    ELSE LET t == Trim(value)
             body == IF t # <<>> /\ Head(t) = "-" THEN Tail(t) ELSE t
         IN IF t = <<>> THEN Num(0)
            ELSE IF body # <<>> /\ \A j \in 1..Len(body) : IsDigit(body[j])
            THEN Num(IF Head(t) = "-" THEN 0 - DecValue(body) ELSE DecValue(body))
            ELSE NaN

\* toInt(value): the numerals above are integers, so Math.trunc keeps them
toInt(value) == LET n == Number(value) IN IF ~n.nan THEN n ELSE NaN

\* n.toString() for an integer n
RECURSIVE NatToString(_)
NatToString(n) == IF n < 10 THEN <<DigitChars[n + 1]>> ELSE NatToString(n \div 10) \o <<DigitChars[(n % 10) + 1]>>
NumberToString(n) == IF n < 0 THEN <<"-">> \o NatToString(0 - n) ELSE NatToString(n)

\* onlyDigits(str): every character that is not a digit is removed
onlyDigits(str) == SelectSeq(str, IsDigit)

\* padLeft that cuts the text to the requested length
padLeft_Truncates(value, length, char) ==
    IF Len(value) >= length
    THEN SubSeq(value, Len(value) - (IF length < 0 THEN 0 ELSE length) + 1, Len(value))
    ELSE [j \in 1..(length - Len(value)) |-> char] \o value

\* padLeft(value, length, char)
padLeft(value, length, char) ==
    IF Len(value) >= length THEN value
    ELSE [j \in 1..(length - Len(value)) |-> char] \o value

\* buildUsername({ prefix, headsetNumber, headsetPad }) for a headsetNumber
\* that is an integer
buildUsername(prefix, headsetNumber, headsetPad) ==
    LET cleanPrefix == Trim(IF prefix = Undefined THEN EmptyStr ELSE prefix)
        paddedHeadset == padLeft(onlyDigits(NumberToString(headsetNumber)), headsetPad, "0")
    IN cleanPrefix \o <<".">> \o paddedHeadset

\* buildPayload({ username, groupCode }): the JSON text (the strings of the
\* model hold no character that JSON.stringify escapes)
buildPayload(username, groupCode) ==
    <<"{", "\"", "v", "e", "r", "s", "i", "o", "n", "\"", ":", "\"", "1", ".", "0", "\"", ",", "\"", "u", "s", "e", "r", "n", "a", "m", "e", "\"", ":", "\"">>
       \o username \o <<"\"", ",", "\"", "g", "r", "o", "u", "p", "c", "o", "d", "e", "\"", ":", "\"">> \o groupCode \o <<"\"", "}">>

\* ------------------------------------------------------------ roster rows

\* row[j] for a 0-based index j of an array
At(row, j) == IF j + 1 <= Len(row) THEN row[j + 1] ELSE Undefined

\* the object arraysToHeaderObjects builds for the data row r under the
\* first row `first`: header[c] = normalizeKey(first[c]); a column with an
\* empty key is skipped; a later column with the same key overwrites
HeaderObject(first, r) ==
    LET header == [c \in 1..Len(first) |-> normalizeKey(first[c])]
        keys == {header[c] : c \in 1..Len(header)} \ {EmptyStr}
    IN [k \in keys |->
          LET c == CHOOSE x \in 1..Len(header) :
                      header[x] = k /\ \A y \in 1..Len(header) : header[y] = k => y <= x
          IN At(r, c - 1)]

\* pick that lets the last synonym with a value win
RECURSIVE pick_LastWins(_, _)
pick_LastWins(obj, keys) ==
    IF keys = <<>> THEN Undefined
    ELSE LET k == keys[Len(keys)]
         IN IF k \in DOMAIN obj /\ obj[k] # Undefined /\ obj[k] # EmptyStr THEN obj[k]
            ELSE pick_LastWins(obj, SubSeq(keys, 1, Len(keys) - 1))

\* pick(obj, keys)
RECURSIVE pick(_, _)
pick(obj, keys) ==
    IF keys = <<>> THEN Undefined
    ELSE LET k == Head(keys)
         IN IF k \in DOMAIN obj /\ obj[k] # Undefined /\ obj[k] # EmptyStr THEN obj[k]
            ELSE pick(obj, Tail(keys))

\* the synonym lists of normalizeCsvRow, in the order they are declared
Synonyms ==
    [group |-> <<<<"g", "r", "o", "u", "p">>,
      <<"g", "r", "o", "u", "p", "_", "c", "o", "d", "e">>,
      <<"g", "r", "o", "u", "p", "c", "o", "d", "e">>>>,
     period |-> <<<<"p", "e", "r", "i", "o", "d">>,
      <<"p", "e", "r">>>>,
     headset |-> <<<<"h", "e", "a", "d", "s", "e", "t">>,
      <<"h", "e", "a", "d", "s", "e", "t", "_", "n", "u", "m", "b", "e", "r">>,
      <<"h", "e", "a", "d", "s", "e", "t", "n", "u", "m", "b", "e", "r">>,
      <<"h", "e", "a", "d", "s", "e", "t", "_", "n", "o">>,
      <<"h", "e", "a", "d", "s", "e", "t", "_", "n", "u", "m">>>>,
     prefix |-> <<<<"p", "r", "e", "f", "i", "x">>,
      <<"c", "l", "a", "s", "s", "_", "p", "r", "e", "f", "i", "x">>,
      <<"t", "e", "a", "c", "h", "e", "r", "_", "p", "r", "e", "f", "i", "x">>>>,
     pad |-> <<<<"p", "a", "d">>,
      <<"p", "a", "d", "d", "i", "n", "g">>,
      <<"h", "e", "a", "d", "s", "e", "t", "_", "p", "a", "d">>,
      <<"h", "e", "a", "d", "s", "e", "t", "_", "d", "i", "g", "i", "t", "s">>>>]

\* normalizeCsvRow(row, { hasHeader }): row is an array on the positional
\* path and an object on the header path
normalizeCsvRow(row, hasHeader) ==
    IF ~hasHeader
    THEN [group |-> At(row, 0), period |-> At(row, 1), headset |-> At(row, 2),
          prefix |-> At(row, 3), pad |-> At(row, 4)]
    ELSE [group |-> pick(row, Synonyms.group), period |-> pick(row, Synonyms.period),
          headset |-> pick(row, Synonyms.headset), prefix |-> pick(row, Synonyms.prefix),
          pad |-> pick(row, Synonyms.pad)]

\* the filter of generateFromCsv: a row with a group, a period or a headset
Usable(r) ==
    \/ (IF r.group = Undefined THEN EmptyStr ELSE r.group) # EmptyStr
    \/ (IF r.period = Undefined THEN EmptyStr ELSE r.period) # EmptyStr
    \/ (IF r.headset = Undefined THEN EmptyStr ELSE r.headset) # EmptyStr

\* readRowAsInput(rowObj): the input object, or the error it throws
readRowAsInput(rowObj) ==
    LET groupCode == rowObj.group
        period == toInt(rowObj.period)
        headsetNumber == toInt(rowObj.headset)
        trimmed == Trim(IF rowObj.prefix = Undefined THEN EmptyStr ELSE rowObj.prefix)
        prefix == IF trimmed # EmptyStr THEN trimmed ELSE <<"a">>
        padInt == toInt(rowObj.pad)
        headsetPad == IF ~padInt.nan THEN padInt.v ELSE 3
    IN IF groupCode = Undefined \/ groupCode = EmptyStr \/ Len(groupCode) # 4
       THEN [ok |-> FALSE, error |-> "Bad group code (expected 4 digits)."]
       ELSE IF period.nan \/ period.v < 1
       THEN [ok |-> FALSE, error |-> "Bad period (expected positive integer)."]
       ELSE IF headsetNumber.nan \/ headsetNumber.v < 1
       THEN [ok |-> FALSE, error |-> "Bad headset # (expected positive integer)."]
       ELSE LET username == buildUsername(prefix, headsetNumber.v, headsetPad)
            IN [ok |-> TRUE, groupCode |-> groupCode, period |-> period.v,
                headsetNumber |-> headsetNumber.v, prefix |-> prefix, headsetPad |-> headsetPad,
                username |-> username, payload |-> buildPayload(username, groupCode)]

\* lines 328-345 of generateFromCsv for one normalized row: a row that is
\* not usable is dropped by the filter, any other goes through readRowAsInput
RowOutcome(r) == IF Usable(r) THEN readRowAsInput(r) ELSE [ok |-> FALSE, error |-> "dropped"]

\* the first row of a sheet whose columns are headed by the canonical names
CanonicalHeader ==
    <<<<"g", "r", "o", "u", "p">>,
      <<"p", "e", "r", "i", "o", "d">>,
      <<"h", "e", "a", "d", "s", "e", "t">>,
      <<"p", "r", "e", "f", "i", "x">>,
      <<"p", "a", "d">>>>

\* the first rows of the sheets with a header: the canonical one, and rows
\* with synonyms, in several column orders, with a repeated and an empty name
FirstRows ==
    {CanonicalHeader,
     <<<<"g", "r", "o", "u", "p", "_", "c", "o", "d", "e">>,
      <<"g", "r", "o", "u", "p">>,
      <<"p", "e", "r">>,
      <<"h", "e", "a", "d", "s", "e", "t", "_", "n", "u", "m">>,
      <<"h", "e", "a", "d", "s", "e", "t">>>>,
     <<<<"G", "r", "o", "u", "p">>,
      <<"g", "r", "o", "u", "p", "c", "o", "d", "e">>,
      <<"P", "e", "r", "i", "o", "d">>,
      <<"h", "e", "a", "d", "s", "e", "t">>,
      <<"p", "a", "d", "d", "i", "n", "g">>>>,
     <<<<"h", "e", "a", "d", "s", "e", "t", "_", "d", "i", "g", "i", "t", "s">>,
      <<"p", "a", "d">>,
      <<"t", "e", "a", "c", "h", "e", "r", "_", "p", "r", "e", "f", "i", "x">>,
      <<"c", "l", "a", "s", "s", "_", "p", "r", "e", "f", "i", "x">>,
      <<"g", "r", "o", "u", "p">>>>,
     <<<<"g", "r", "o", "u", "p">>,
      <<"G", "r", "o", "u", "p">>,
      <<"p", "e", "r", "i", "o", "d">>,
      <<"h", "e", "a", "d", "s", "e", "t">>,
      <<"p", "r", "e", "f", "i", "x">>>>,
     <<<<>>,
      <<"p", "a", "d">>,
      <<"g", "r", "o", "u", "p">>,
      <<"p", "e", "r">>,
      <<"h", "e", "a", "d", "s", "e", "t", "-", "n", "o">>>>}

\* what a data cell may hold: nothing, a group code, a number, a prefix
CellValues == {EmptyStr, <<"0", "0", "0", "1">>, <<"7">>, <<"b", " ">>}

InitRow ==
    /\ exportJob = [running |-> FALSE, cancelRequested |-> FALSE]
    /\ lastManualPrintItem = Null
    /\ manualGen = "rendering"
    /\ csvPrintItems = <<>>
    /\ gen = GenIdle
    /\ items = <<>>
    /\ aliased = FALSE
    /\ orch = OrchIdle
    /\ lastStep = "load"
    /\ rawRows = <<>>
    /\ masterItems = <<>>
    /\ masterDone = FALSE
    /\ headerCall = NoCall
    /\ \E first \in {h \in FirstRows : isProbablyHeaderRow(TRUE, h)}, n \in 0..MaxRowCells :
          \E cells \in [1..n -> CellValues] :
             rowCall = [done |-> FALSE, first |-> first, cells |-> cells]
    /\ nameCall = NoCall

\* the data row `cells` is read twice: as a row of a sheet whose first row
\* is `first` (arraysToHeaderObjects, then the header path), and as a row of
\* a sheet without a header (the positional path)
NormalizeRow ==
    /\ ~rowCall.done
    /\ LET byHeader == normalizeCsvRow(HeaderObject(rowCall.first, rowCall.cells), TRUE)
           byPosition == normalizeCsvRow(rowCall.cells, FALSE)
       IN rowCall' = [done |-> TRUE, first |-> rowCall.first, cells |-> rowCall.cells,
                      byHeader |-> byHeader, byPosition |-> byPosition,
                      headerOutcome |-> RowOutcome(byHeader),
                      positionOutcome |-> RowOutcome(byPosition)]
    /\ UNCHANGED <<exportJob, lastManualPrintItem, manualGen, csvPrintItems, gen, items, aliased, orch,
                   lastStep, rawRows, masterItems, masterDone, headerCall, nameCall>>

NextRow == NormalizeRow

SpecRow == InitRow /\ [][NextRow]_vars

\* ---------------------------------------------------------------- usernames

\* the arguments of the buildUsername calls: a prefix (or none), a headset
\* number and a pad
Prefixes == {Undefined, <<"a">>, <<" ", "b", " ">>}
HeadsetNumbers == (0..MaxHeadset) \cup {10000, 0 - 48}

InitName ==
    /\ exportJob = [running |-> FALSE, cancelRequested |-> FALSE]
    /\ lastManualPrintItem = Null
    /\ manualGen = "rendering"
    /\ csvPrintItems = <<>>
    /\ gen = GenIdle
    /\ items = <<>>
    /\ aliased = FALSE
    /\ orch = OrchIdle
    /\ lastStep = "load"
    /\ rawRows = <<>>
    /\ masterItems = <<>>
    /\ masterDone = FALSE
    /\ headerCall = NoCall
    /\ rowCall = NoCall
    /\ \E prefix \in Prefixes, headsetNumber \in HeadsetNumbers, headsetPad \in 0..MaxPad :
          nameCall = [done |-> FALSE, prefix |-> prefix, headsetNumber |-> headsetNumber,
                      headsetPad |-> headsetPad]

\* buildUsername is applied to the arguments
BuildName ==
    /\ ~nameCall.done
    /\ nameCall' = [nameCall EXCEPT !.done = TRUE] @@
                   [username |-> buildUsername(nameCall.prefix, nameCall.headsetNumber, nameCall.headsetPad)]
    /\ UNCHANGED <<exportJob, lastManualPrintItem, manualGen, csvPrintItems, gen, items, aliased, orch,
                   lastStep, rawRows, masterItems, masterDone, headerCall, rowCall>>

NextName == BuildName

SpecName == InitName /\ [][NextName]_vars

\* ------------------------------------------------------------- properties

Last(s) == s[Len(s)]

RECURSIVE Concat(_)
Concat(ss) == IF ss = <<>> THEN <<>> ELSE ss[1] \o Concat(Tail(ss))

\* number of items in a list of slices
Count(ss) == Len(Concat(ss))

JobIdle == [running |-> FALSE, cancelRequested |-> FALSE]

\* an orchestrator stretch runs in this step
OrchMoves == orch' # orch

\* C1: when the flag isCancelled reads is true at the poll that opens part k
\* (after the 'batching' yield or at the start of a one-part run for k = 0,
\* after the 'opened' yield of part k-1 otherwise), the call ends there: the
\* builder is not invoked again, exactly the parts 0..k-1 were built and
\* all of them presented, a 'cancelled' event is the last event, and the
\* result is cancelled with totalParts as computed at the start.
C1_PartStartsNext(k) ==
    \/ orch.pc = "batchYield" /\ k = 0
    \/ orch.pc = "openedYield" /\ k = orch.part + 1 /\ k < orch.totalParts
    \/ orch.pc = "idle" /\ orch'.caller # "none" /\ orch'.isArray /\ orch'.startLen > 0
          /\ orch'.totalParts = 1 /\ k = 0
C1_CancelledBeforePart ==
    [][\A k \in 0..MaxRows :
          (C1_PartStartsNext(k) /\ OrchMoves /\ exportJob.cancelRequested) =>
             /\ orch'.result = "cancelled"
             /\ orch'.pc = "returned"
             /\ orch'.built = orch.built
             /\ Len(orch'.built) = k
             /\ orch'.presented = orch'.built
             /\ Last(orch'.events).phase = "cancelled"
             /\ Last(orch'.events).part = k + 1
             /\ orch'.totalParts = CeilDiv(orch'.startLen, orch'.itemsPerPdf)
             /\ orch'.totalParts = Last(orch'.events).totalParts]_vars
C1_Witness ==
    /\ orch.result = "cancelled"
    /\ Len(orch.presented) >= 1
    /\ Len(orch.built) = Len(orch.presented)
    /\ Len(orch.built) < orch.totalParts

\* C2: at most one orchestrator call is in flight: the running flag is set
\* exactly while a call is in flight, a click on 'Print This QR' or 'Print
\* CSV QRs' while it is set is rejected and changes nothing (no call
\* started, nothing queued, job flags as they were), and a call in flight is
\* never replaced by another one.
C2_StartClick ==
    lastStep' \in {"printManual:rejected", "printManual:alert", "printManual:started",
                   "csvPrint:rejected", "csvPrint:alert", "csvPrint:started"}
C2_OneExportAtATime ==
    /\ [](exportJob.running <=> orch.pc # "idle")
    /\ [][(exportJob.running /\ C2_StartClick) =>
             /\ lastStep' \in {"printManual:rejected", "csvPrint:rejected"}
             /\ UNCHANGED <<exportJob, lastManualPrintItem, manualGen, csvPrintItems, gen, items, aliased, orch>>]_vars
    /\ [][(orch.pc # "idle" /\ orch'.pc # "idle") =>
             /\ orch'.caller = orch.caller
             /\ orch'.totalParts = orch.totalParts
             /\ Len(orch'.events) >= Len(orch.events)
             /\ SubSeq(orch'.events, 1, Len(orch.events)) = orch.events]_vars
C2_Witness ==
    /\ lastStep = "csvPrint:rejected"
    /\ exportJob.running
    /\ exportJob.cancelRequested
    /\ orch.pc = "building"

\* C3: every export that was started ends, and when its orchestrator call
\* settles (normal return, cancelled result, or error thrown) the handler
\* leaves running = false and cancelRequested = false; with no call in
\* flight the job is idle and no start request is rejected.
C3_ExportReturnsToIdle ==
    /\ exportJob.running ~> ~exportJob.running
    /\ [][(orch.pc # "idle" /\ orch'.pc = "idle") =>
             /\ orch'.result \in {"ok", "cancelled", "PDF build failed", "No items to export."}
             /\ exportJob' = JobIdle]_vars
    /\ [](orch.pc = "idle" => exportJob = JobIdle)
    /\ [][orch.pc = "idle" => lastStep' \notin {"printManual:rejected", "csvPrint:rejected"}]_vars
C3_Witness ==
    /\ orch.result = "PDF build failed"
    /\ Len(orch.presented) >= 1
    /\ orch.pc = "idle"
    /\ lastStep = "export:alert"
    /\ exportJob = JobIdle

\* C4: a run that returns normally (no cancellation observed, no builder
\* failure) has emitted exactly: 'batching' first iff totalParts > 1, then
\* 'building' i and 'opened' i for i = 1..totalParts in increasing order,
\* then one 'done' event with remaining = 0, which is the last event.
C4_Expected(T) ==
    LET b == IF T > 1 THEN 1 ELSE 0
    IN [j \in 1..(b + 2 * T + 1) |->
          IF j <= b THEN <<"batching", 0>>
          ELSE IF j = b + 2 * T + 1 THEN <<"done", T>>
          ELSE IF (j - b) % 2 = 1 THEN <<"building", (j - b + 1) \div 2>>
          ELSE <<"opened", (j - b) \div 2>>]
C4_PhaseParts == [j \in 1..Len(orch.events) |-> <<orch.events[j].phase, orch.events[j].part>>]
C4_EventOrder ==
    orch.result = "ok" =>
       /\ C4_PhaseParts = C4_Expected(orch.totalParts)
       /\ Last(orch.events).remaining = 0
C4_Witness ==
    /\ orch.result = "ok"
    /\ orch.totalParts >= 3
    /\ orch.events[1].phase = "batching"

\* C5: when the builder throws while building part k, the call ends with
\* that error; the step emits no event and leaves the presented parts and
\* the done count as they were; the parts 0..k-1 are the presented ones, the
\* last event is the 'building' event of part k, and no 'opened',
\* 'cancelled' or 'done' event exists for part k or later.
C5_ThrowStep == orch.pc = "building" /\ OrchMoves /\ lastStep' = "orch:builderThrew"
C5_BuilderThrowPropagates ==
    /\ [][C5_ThrowStep =>
             /\ orch'.result = "PDF build failed"
             /\ orch'.events = orch.events
             /\ orch'.presented = orch.presented
             /\ orch'.built = orch.built
             /\ orch'.done = orch.done]_vars
    /\ [](orch.result = "PDF build failed" =>
             LET k == Len(orch.built) - 1
             IN /\ orch.pc = "returned"
                /\ Len(orch.presented) = k
                /\ orch.done = Count(orch.presented)
                /\ Last(orch.events).phase = "building"
                /\ Last(orch.events).part = k + 1
                /\ \A j \in 1..Len(orch.events) :
                      orch.events[j].phase \in {"opened", "cancelled", "done"} => orch.events[j].part <= k)
C5_Witness ==
    /\ orch.result = "PDF build failed"
    /\ Len(orch.presented) >= 1

\* C6: when the flag is set while the builder works on part k, the build
\* goes on; once it has returned the call emits a 'cancelled' event whose
\* done counts the items of the parts before k, does not present part k,
\* builds nothing more and returns cancelled.  The flag is read only at the
\* poll that opens a part and at the poll that follows its build: a flag
\* set during the yield that follows 'building' does not stop the builder
\* from being invoked.
C6_CancelDuringBuild ==
    /\ [][(orch.pc = "building" /\ exportJob.cancelRequested /\ OrchMoves /\ ~C5_ThrowStep) =>
             /\ orch'.result = "cancelled"
             /\ orch'.pc = "returned"
             /\ orch'.presented = orch.presented
             /\ orch'.built = orch.built
             /\ Len(orch'.presented) = orch.part
             /\ Last(orch'.events).phase = "cancelled"
             /\ Last(orch'.events).part = orch.part + 1
             /\ Last(orch'.events).done = Count(orch.presented)]_vars
    /\ [][(orch.pc = "buildYield" /\ OrchMoves) =>
             /\ orch'.pc = "building"
             /\ orch'.built = Append(orch.built, orch.slice)
             /\ orch'.events = orch.events]_vars
C6_Witness ==
    /\ orch.result = "cancelled"
    /\ Len(orch.presented) >= 1
    /\ Len(orch.built) = Len(orch.presented) + 1

C8_EmptyInputFails ==
    (orch.caller # "none" /\ (~orch.isArray \/ orch.startLen = 0)) =>
       /\ orch.pc = "returned"
       /\ orch.result = "No items to export."
       /\ orch.built = <<>>
       /\ orch.presented = <<>>
       /\ orch.events = <<>>
C8_Witness ==
    /\ orch.caller = "direct"
    /\ orch.isArray
    /\ orch.startLen = 0
    /\ orch.result = "No items to export."

\* C9: for a grid in which the scan found a group-code row G and a usernames
\* row U, the result lists exactly the cells (r, c) with r after U, c >= 1
\* within the width of G, a non-empty trimmed value and a non-empty carried
\* group code, in row-major order; the entry of (r, c) has the trimmed cell
\* as username and as groupCode the nearest non-blank cell of G at or to the
\* left of column c; every entry has a non-empty groupCode and username.
C9_Labels == {S_teacher, S_group_code, S_class_periods, S_usernames}
\* the normalized first cells of the rows
C9_RowLabels == [i \in 1..Len(rawRows) |-> normalizeKey(cellStr(rawRows[i][1]))]
\* the rows the scan reads: up to the first row by which all four labels were seen
C9_ScanLen(labels) ==
    LET full == {i \in 1..Len(labels) : \A lab \in C9_Labels : \E j \in 1..i : labels[j] = lab}
    IN IF full = {} THEN Len(labels) ELSE CHOOSE i \in full : \A k \in full : i <= k
\* the row (1-based, 0 if none) the scan keeps for a label: the last one it reads
C9_RowOf(labels, lab) ==
    LET js == {j \in 1..C9_ScanLen(labels) : labels[j] = lab}
    IN IF js = {} THEN 0 ELSE CHOOSE j \in js : \A k \in js : k <= j
\* the group code of column c of the group row: nearest non-blank cell at or left of c
C9_GroupAt(groupRow, c) ==
    LET js == {j \in 1..c : Trim(groupRow[j + 1]) # <<>>}
    IN IF js = {} THEN <<>> ELSE Trim(groupRow[(CHOOSE j \in js : \A k \in js : k <= j) + 1])
\* the username cells <<row, column>> (row 1-based, column 1 = first after the label)
C9_Cells(G, U) ==
    {q \in ((U + 1)..Len(rawRows)) \X (1..(Len(rawRows[G]) - 1)) :
        /\ q[2] <= Len(rawRows[q[1]]) - 1
        /\ Trim(rawRows[q[1]][q[2] + 1]) # <<>>
        /\ C9_GroupAt(rawRows[G], q[2]) # <<>>}
C9_Before(p, q) == p[1] < q[1] \/ (p[1] = q[1] /\ p[2] < q[2])
C9_MasterEntries ==
    masterDone =>
       LET labels == C9_RowLabels
           G == C9_RowOf(labels, S_group_code)
           U == C9_RowOf(labels, S_usernames)
       IN (G > 0 /\ U > 0) =>
             LET cells == C9_Cells(G, U)
             IN /\ Len(masterItems) = Cardinality(cells)
                /\ \A q \in cells :
                      LET e == masterItems[Cardinality({p \in cells : C9_Before(p, q)}) + 1]
                      IN /\ e.username = Trim(rawRows[q[1]][q[2] + 1])
                         /\ e.groupCode = C9_GroupAt(rawRows[G], q[2])
                /\ \A j \in 1..Len(masterItems) :
                      masterItems[j].groupCode # <<>> /\ masterItems[j].username # <<>>
\* two entries or more, one of them with a group code inherited from the
\* left, and a username cell of the same grid skipped for want of a group code
C9_Witness ==
    /\ masterDone
    /\ Len(masterItems) >= 2
    /\ LET labels == C9_RowLabels
           G == C9_RowOf(labels, S_group_code)
           U == C9_RowOf(labels, S_usernames)
       IN /\ G > 0 /\ U > 0
          /\ \E q \in C9_Cells(G, U) : Trim(rawRows[G][q[2] + 1]) = <<>>
          /\ \E r \in (U + 1)..Len(rawRows) : \E c \in 1..(Len(rawRows[r]) - 1) :
                Trim(rawRows[r][c + 1]) # <<>> /\ <<r, c>> \notin C9_Cells(G, U)

\* C10: the result is empty when no row of the grid is labelled group_code
\* or none is labelled usernames; a grid with both and with a username cell
\* that has a group code gives a non-empty result whether or not it has a
\* teacher row or a class_periods row, and without a teacher row every entry
\* has teacher = "", without a class_periods row every entry has period = "".
C10_QualificationAndDefaults ==
    masterDone =>
       LET labels == C9_RowLabels
           has == [lab \in C9_Labels |-> \E i \in 1..Len(labels) : labels[i] = lab]
           G == C9_RowOf(labels, S_group_code)
           U == C9_RowOf(labels, S_usernames)
       IN /\ (~has[S_group_code] \/ ~has[S_usernames]) => masterItems = <<>>
          /\ (has[S_group_code] /\ has[S_usernames]) => (G > 0 /\ U > 0)
          /\ (G > 0 /\ U > 0 /\ C9_Cells(G, U) # {}) => masterItems # <<>>
          /\ ~has[S_teacher] => \A j \in 1..Len(masterItems) : masterItems[j].teacher = <<>>
          /\ ~has[S_class_periods] => \A j \in 1..Len(masterItems) : masterItems[j].period = <<>>
\* a grid with a class_periods row and no teacher row
C10_Witness ==
    /\ masterDone
    /\ LET labels == C9_RowLabels
       IN /\ \A i \in 1..Len(labels) : labels[i] # S_teacher
          /\ \E i \in 1..Len(labels) : labels[i] = S_class_periods
    /\ Len(masterItems) >= 1
    /\ masterItems[1].teacher = <<>>
    /\ masterItems[1].period # <<>>

\* C15: normalizeKey maps every case, whitespace and hyphen variant of a
\* column name to the name written in lower case with one underscore
\* between its words: every key isProbablyHeaderRow computes from a cell is
\* the column name the cell spells.
C15_VariantsNormalizeToLabel ==
    headerCall.done => \A j \in 1..Len(headerCall.row) : headerCall.keys[j] = headerCall.row[j].label

\* C11: isProbablyHeaderRow answers true exactly when at least two cells of
\* the row spell a column name of the vocabulary, in any case and with
\* spaces or hyphens between the words.
C11_HeaderIffTwoLabels ==
    headerCall.done =>
       LET row == headerCall.row
       IN headerCall.result <=> (Cardinality({j \in 1..Len(row) : row[j].label \in known}) >= 2)

\* C12: on the header path every field of the normalized row is the value
\* of the first name of its synonym list, in the order the list declares
\* them, that heads a column of the sheet in which the row has a non-empty
\* value (the last such column when a name is repeated), whatever the order
\* of the columns; with no such name the field is undefined.
C12_Fields == {"group", "period", "headset", "prefix", "pad"}
C12_KeyValue(first, cells, k) ==
    LET cs == {c \in 1..Len(first) : normalizeKey(first[c]) = k}
    IN IF cs = {} THEN Undefined
       ELSE At(cells, (CHOOSE c \in cs : \A d \in cs : d <= c) - 1)
C12_Present(first, cells, f) ==
    {i \in 1..Len(Synonyms[f]) : C12_KeyValue(first, cells, Synonyms[f][i]) \notin {Undefined, EmptyStr}}
C12_EarlierSynonymWins ==
    rowCall.done =>
       LET first == rowCall.first
           cells == rowCall.cells
       IN \A f \in C12_Fields :
             LET present == C12_Present(first, cells, f)
             IN rowCall.byHeader[f] =
                   IF present = {} THEN Undefined
                   ELSE C12_KeyValue(first, cells, Synonyms[f][CHOOSE i \in present : \A j \in present : i <= j])
\* a sheet in which the later-declared synonym stands left of the
\* earlier-declared one, both with a value, the values different
C12_Witness ==
    /\ rowCall.done
    /\ \E f \in C12_Fields :
          \E i, j \in C12_Present(rowCall.first, rowCall.cells, f) :
             /\ i < j
             /\ \E ci, cj \in 1..Len(rowCall.first) :
                   /\ cj < ci
                   /\ normalizeKey(rowCall.first[ci]) = Synonyms[f][i]
                   /\ normalizeKey(rowCall.first[cj]) = Synonyms[f][j]
             /\ C12_KeyValue(rowCall.first, rowCall.cells, Synonyms[f][i])
                   # C12_KeyValue(rowCall.first, rowCall.cells, Synonyms[f][j])
             /\ rowCall.byHeader[f] = C12_KeyValue(rowCall.first, rowCall.cells, Synonyms[f][i])
    /\ \E f \in C12_Fields : rowCall.byHeader[f] = Undefined

\* C19: a row of a sheet headed group, period, headset, prefix, pad comes
\* out the same as the same cells read by position: both are rejected (or
\* dropped), or both give the same username and payload.
C19_Same(a, b) ==
    IF a.ok /\ b.ok THEN a.username = b.username /\ a.payload = b.payload
    ELSE ~a.ok /\ ~b.ok
C19_HeaderAndPositionAgree ==
    (rowCall.done /\ rowCall.first = CanonicalHeader) =>
       C19_Same(rowCall.headerOutcome, rowCall.positionOutcome)

\* C14: buildUsername returns the trimmed prefix, a dot and a string of
\* digits whose value is the headset number; that string has exactly
\* headsetPad digits when the number has no more digits than that, and is
\* the number's numeral, whole, when it has more.
C14_Abs(n) == IF n < 0 THEN 0 - n ELSE n
RECURSIVE C14_DigitCount(_)
C14_DigitCount(n) == IF n < 10 THEN 1 ELSE 1 + C14_DigitCount(n \div 10)
C14_PaddedNotTruncated ==
    nameCall.done =>
       LET n == C14_Abs(nameCall.headsetNumber)
           pad == nameCall.headsetPad
           cleanPrefix == Trim(IF nameCall.prefix = Undefined THEN EmptyStr ELSE nameCall.prefix)
           u == nameCall.username
           suffix == SubSeq(u, Len(cleanPrefix) + 2, Len(u))
       IN /\ Len(u) >= Len(cleanPrefix) + 1
          /\ SubSeq(u, 1, Len(cleanPrefix)) = cleanPrefix
          /\ u[Len(cleanPrefix) + 1] = "."
          /\ \A j \in 1..Len(suffix) : IsDigit(suffix[j])
          /\ DecValue(suffix) = n
          /\ Len(suffix) = IF C14_DigitCount(n) <= pad THEN pad ELSE C14_DigitCount(n)
\* prefix 'a', 48, pad 3 gives 'a.048'
C14_Witness ==
    /\ nameCall.done
    /\ nameCall.prefix = <<"a">> /\ nameCall.headsetNumber = 48 /\ nameCall.headsetPad = 3
    /\ nameCall.username = <<"a", ".", "0", "4", "8">>

\* C13: when a generation run ends, every row of the file that has a
\* group, a period or a headset has been validated once and counted as ok
\* or as bad, the rows without any of them have been counted as neither,
\* the rows that fail validation are the bad ones, and the list queued for
\* printing holds as many items as were counted ok.
C13_RunEnds == gen.pc # "idle" /\ gen'.pc = "idle" /\ lastStep' = "csvGenerate:rows"
C13_Counts ==
    LET file == gen'.file
        usable == (1..file.raw) \ file.blankRows
    IN /\ gen'.ok + gen'.bad = Cardinality(usable)
       /\ gen'.bad = Cardinality(usable \cap file.badRows)
C13_UsableRowsCountedOnce == [][C13_RunEnds => (C13_Counts /\ Len(csvPrintItems') = gen'.ok)]_vars

\* C16: every progress event of an export has done + remaining = total,
\* the same total as the first event, a done that is the number of items
\* of the parts presented before it was emitted, and, unless it is the
\* 'batching' event, a part between 1 and totalParts.
C16_OpenedBefore(events, j) == Cardinality({k \in 1..j : events[k].phase = "opened"})
C16_EventsConsistent ==
    LET events == orch.events
        presented == orch.presented
    IN \A j \in 1..Len(events) :
          LET e == events[j]
          IN /\ e.done + e.remaining = e.total
             /\ e.total = events[1].total
             /\ e.done = Count(SubSeq(presented, 1, C16_OpenedBefore(events, j)))
             /\ e.phase # "batching" => (1 <= e.part /\ e.part <= e.totalParts)

\* C17: from the step that starts an export to the step that ends it, the
\* list handed to the orchestrator keeps its items: no step taken while the
\* export is running appends to it or removes from it.
C17_ListUnchangedDuringExport ==
    [][(exportJob.running /\ exportJob'.running) => items' = items]_vars

\* C18: whenever the event loop has control, cancelRequested implies
\* running; a cancel click with no export running changes neither flag;
\* the step that starts an export leaves cancelRequested false.
C18_CancelOnlyWhileRunning ==
    [][/\ exportJob'.cancelRequested => exportJob'.running
       /\ (~exportJob.running /\ lastStep' \in {"cancel:ignored", "cancel:requested"}) =>
             exportJob' = exportJob
       /\ (~exportJob.running /\ exportJob'.running) => ~exportJob'.cancelRequested]_vars
\* an export was cancelled and has ended, and a cancel click that followed
\* was ignored
C18_Witness ==
    /\ orch.result = "cancelled"
    /\ orch.pc = "idle"
    /\ lastStep = "cancel:ignored"
    /\ exportJob = JobIdle

====
